---- MODULE Spec2Model ----
(***************************************************************************)
(* TaskMateAi: the reminder core (ReminderService, the reminder worker,    *)
(* the task-creation paths that insert reminders).                         *)
(*                                                                         *)
(* Instants are integers counted in minutes.  The database is the pair     *)
(* (tasks, reminders); a dispatch run holds its own session state in run.  *)
(***************************************************************************)
EXTENDS Integers, Sequences, FiniteSets

\* ------------------------------------------------------------------ bounds

\* The clock takes the values 0, Step, ..., MaxTicks * Step.
MaxTicks == 1
\* Reminders ReminderService.schedule inserts beside overlapping dispatch runs.
MaxScheduled == 1
\* Pending reminders in the table one dispatch run at a time works on.
RunReminders == 3
\* Tasks the creation paths create.
MaxTasks == 1
\* Reminders the creation paths insert.
MaxCreated == 2
\* Entries of a default_reminder_minutes list.
MaxOffsets == 2

\* ------------------------------------------------------- program constants

\* preferences.get("default_reminder_minutes", [30])
DefaultReminderMinutes == 30
\* DEFAULT_USER_PREFERENCES["default_reminder_minutes"]
ChatDefaultReminderMinutes == 15

\* None / NULL.
Null == 0 - 1

\* One step of the model's clock.
Step == ChatDefaultReminderMinutes

\* The instants of the clock.
Instants == {k * Step : k \in 0..MaxTicks}

\* Due instants: they reach DefaultReminderMinutes past the clock's end.
DueInstants == {k * Step : k \in 0..(MaxTicks + DefaultReminderMinutes \div Step)}

\* ------------------------------------------------------------------- users

\* Users 1 and 3 have a telegram_id, user 2 has none.
Users == {1, 2, 3}

HasTelegramId(u) == u \in {1, 3}

\* The zones of the zone database: UTC, a zone at a fixed offset, and the
\* configured default, which has daylight saving time.
Zones == {"UTC", "Asia/Tehran", "Europe/Stockholm"}

\* payload.timezone = None, user.timezone = None.
NoZone == ""

\* settings.default_timezone
DefaultTimezone == "Europe/Stockholm"

\* Keys ZoneInfo rejects as malformed (ValueError), and keys that name no
\* zone of the database (ZoneInfoNotFoundError).
MalformedKeys == {"../etc/passwd", "/etc/localtime", "."}

UnknownKeys == {"Mars/Phobos", "utc", "Europe", " ", "Asia/Tehran "}

\* The names a request, a user row or the settings may carry.
ZoneKeys == Zones \cup MalformedKeys \cup UnknownKeys \cup {NoZone}

\* ZoneInfo(key): the exception it raises, "" when it returns the zone.
ZoneInfoError(key) ==
    IF key \in Zones THEN ""
    ELSE IF key \in MalformedKeys \cup {NoZone} THEN "ValueError"
    ELSE "ZoneInfoNotFoundError"

\* The users table: user 1 has a timezone of its own, user 2 has none, and
\* user 3 was given one that is no key of a zone (UserService.update_user
\* stores the string it is given).
UserTimezone(user) ==
    IF user = 1 THEN "Asia/Tehran" ELSE IF user = 3 THEN "../etc/passwd" ELSE NoZone

\* A default_reminder_minutes entry: an integer (or a numeric string, which
\* int() parses to the same integer), or a value int() raises on.
OffsetMinutes == {0, Step, 2 * Step}

\* datetime.min on the model's clock: an instant before it is not a datetime,
\* and arithmetic that would give one raises OverflowError.
DatetimeMin == 0 - 4 * Step

\* A number of minutes no due instant can go back by: either timedelta() or
\* the subtraction from due_at raises OverflowError on it.
OutOfRangeMinutes ==
    (MaxTicks + DefaultReminderMinutes \div Step + 1) * Step - DatetimeMin

\* The numbers a preference can hold.
StoredMinutes == OffsetMinutes \cup {OutOfRangeMinutes}

OffsetEntries ==
    {[valid |-> TRUE, minutes |-> m] : m \in StoredMinutes}
        \cup {[valid |-> FALSE, minutes |-> 0]}

SeqsUpTo(S, n) == UNION {[1..k -> S] : k \in 0..n}

\* preferences["default_reminder_minutes"]: absent, one number, or a list.
PrefValues ==
    {[kind |-> "absent", num |-> 0, list |-> <<>>]}
        \cup {[kind |-> "num", num |-> m, list |-> <<>>] : m \in StoredMinutes}
        \cup {[kind |-> "list", num |-> 0, list |-> l] :
                l \in SeqsUpTo(OffsetEntries, MaxOffsets)}

VARIABLES
    now,         \* datetime.now(timezone.utc)
    botToken,    \* settings.telegram_bot_token is set
    prefs,       \* user id -> preferences["default_reminder_minutes"]
    tasks,       \* the tasks table: a sequence, the index is Task.id
    reminders,   \* the reminders table: id -> row
    nextId,      \* the reminders table's autoincrement
    batchSize,   \* the batch_size every dispatch run is called with
    run,         \* worker -> the state of its dispatch_due_reminders run
    deliveries,  \* reminder id -> messages the channel accepted for it
    lastCall,    \* the last compute_default_times call and what it returned
    report,      \* the last ReportService.generate call and what it returned
    window,      \* the last _calculate_window call and what it returned
    zone,        \* the last _resolve_timezone call and what it returned
    subscription,\* the subscriptions row of the one subject, if any
    access,      \* the last check_access call and what it returned
    sched        \* session -> the state of its ReminderService.schedule call

\* The state of the services that only some specifications exercise.
serviceVars == <<zone, subscription, access, sched>>

vars == <<now, botToken, prefs, tasks, reminders, nextId, batchSize, run, deliveries,
          lastCall, report, window, serviceVars>>

TaskIds == DOMAIN tasks
ReminderIds == DOMAIN reminders

\* --------------------------------------------------------- pure functions

RECURSIVE InsertSorted(_, _)
InsertSorted(s, x) ==
    IF s = <<>> THEN <<x>>
    ELSE IF x < Head(s) THEN <<x>> \o s
    ELSE <<Head(s)>> \o InsertSorted(Tail(s), x)

\* list.sort()
RECURSIVE SortInstants(_)
SortInstants(s) ==
    IF s = <<>> THEN <<>> ELSE InsertSorted(SortInstants(Tail(s)), Head(s))

\* offsets = preferences.get(...); a number becomes [int(offsets)]
OffsetsOf(pref) ==
    CASE pref.kind = "absent" ->
            <<[valid |-> TRUE, minutes |-> DefaultReminderMinutes]>>
      [] pref.kind = "num" -> <<[valid |-> TRUE, minutes |-> pref.num]>>
      [] OTHER -> pref.list

\* A variant that also keeps a candidate equal to now.
KeepsCandidate_NotBefore(remind_at, nowv) == remind_at >= nowv

\* if remind_at > now: reminders.append(remind_at)
KeepsCandidate(remind_at, nowv) == remind_at > nowv

\* The loop over offsets: an entry int() raises on is skipped.
RECURSIVE CandidateTimes(_, _, _)
CandidateTimes(due_at, offsets, nowv) ==
    IF offsets = <<>> THEN <<>>
    ELSE LET offset == Head(offsets)
             rest == CandidateTimes(due_at, Tail(offsets), nowv)
         IN  IF ~offset.valid THEN rest
             ELSE IF KeepsCandidate(due_at - offset.minutes, nowv)
                  THEN <<due_at - offset.minutes>> \o rest
                  ELSE rest

\* The preference compute_default_times reads; user = Null is "no user".
PrefOf(user) ==
    IF user = Null THEN [kind |-> "absent", num |-> 0, list |-> <<>>] ELSE prefs[user]

\* timedelta(minutes=int(offset)) and due_at - delta: OverflowError is not
\* among the exceptions the loop catches, so the call raises it.
ComputeRaises(due_at, user) ==
    /\ due_at # Null
    /\ \E k \in DOMAIN OffsetsOf(PrefOf(user)) :
          LET offset == OffsetsOf(PrefOf(user))[k]
          IN  offset.valid /\ due_at - offset.minutes < DatetimeMin

\* ReminderService.compute_default_times when it returns.
ComputeDefaultTimes(due_at, user, nowv) ==
    IF due_at = Null THEN <<>>
    ELSE SortInstants(CandidateTimes(due_at, OffsetsOf(PrefOf(user)), nowv))

\* ------------------------------------------------------- ReminderService

NoRow == [id \in {} |-> 0]

Range(s) == {s[k] : k \in DOMAIN s}

RemoveRow(table, id) == [x \in (DOMAIN table) \ {id} |-> table[x]]

AddRow(table, id, row) ==
    [x \in (DOMAIN table) \cup {id} |-> IF x = id THEN row ELSE table[x]]

\* select(Reminder).where(task_id == task_id, remind_at == when)
Existing(table, task_id, when) ==
    {id \in DOMAIN table :
        table[id].task_id = task_id /\ table[id].remind_at = when}

\* A variant that inserts without looking for an existing row.
InsertsReminder_Always(table, task_id, when) == TRUE

\* if reminder is None: the row is added and committed
InsertsReminder(table, task_id, when) == Existing(table, task_id, when) = {}

\* Reminder(task_id=task_id, remind_at=when, sent=False)
NewReminder(task_id, when) ==
    [task_id |-> task_id, remind_at |-> when, sent |-> FALSE]

\* ReminderService.schedule on a table: the table and the autoincrement after it.
ScheduleInto(db, task_id, when) ==
    IF InsertsReminder(db.table, task_id, when)
    THEN [table |-> AddRow(db.table, db.nid, NewReminder(task_id, when)),
          nid |-> db.nid + 1]
    ELSE db

\* ReminderService.schedule, as the schedule_reminder worker task calls it,
\* with any instant.
Schedule(task_id, when) ==
    /\ task_id \in TaskIds
    /\ LET db == ScheduleInto([table |-> reminders, nid |-> nextId], task_id, when)
       IN  /\ reminders' = db.table
           /\ nextId' = db.nid
    /\ UNCHANGED <<now, botToken, prefs, tasks, batchSize, run, deliveries, lastCall,
                   report, window, serviceVars>>

\* The database sessions that call ReminderService.schedule side by side.
Sessions == {1, 2}

NoSchedule == [pc |-> "idle", task_id |-> Null, when |-> Null, found |-> FALSE]

\* ReminderService.schedule in a session of its own, up to the result of
\* its select: existing.scalar_one_or_none() sees the committed rows.
ScheduleSelect(s, task_id, when) ==
    /\ sched[s].pc = "idle"
    /\ task_id \in TaskIds
    /\ sched' = [sched EXCEPT ![s] =
                    [pc |-> "selected", task_id |-> task_id, when |-> when,
                     found |-> ~InsertsReminder(reminders, task_id, when)]]
    /\ UNCHANGED <<now, botToken, prefs, tasks, reminders, nextId, batchSize, run,
                   deliveries, lastCall, report, window, zone, subscription, access>>

\* The rest of that call: if reminder is None the row is added and
\* committed; the table has no unique constraint to refuse it.
ScheduleCommit(s) ==
    /\ sched[s].pc = "selected"
    /\ IF sched[s].found
       THEN UNCHANGED <<reminders, nextId>>
       ELSE /\ reminders' = AddRow(reminders, nextId,
                                   NewReminder(sched[s].task_id, sched[s].when))
            /\ nextId' = nextId + 1
    /\ sched' = [sched EXCEPT ![s] = NoSchedule]
    /\ UNCHANGED <<now, botToken, prefs, tasks, batchSize, run, deliveries, lastCall,
                   report, window, zone, subscription, access>>

\* ReminderService.cancel
Cancel(reminder_id) ==
    /\ reminder_id \in ReminderIds
    /\ reminders' = RemoveRow(reminders, reminder_id)
    /\ UNCHANGED <<now, botToken, prefs, tasks, nextId, batchSize, run, deliveries, lastCall,
                   report, window, serviceVars>>

\* ReminderService.mark_sent
MarkSent(reminder_id) ==
    /\ reminder_id \in ReminderIds
    /\ reminders' = [reminders EXCEPT ![reminder_id].sent = TRUE]
    /\ UNCHANGED <<now, botToken, prefs, tasks, nextId, batchSize, run, deliveries, lastCall,
                   report, window, serviceVars>>

Min(a, b) == IF a <= b THEN a ELSE b

\* A variant of the query without the sent filter.
IsDue_IgnoringSent(row, nowv) == row.remind_at <= nowv

\* A variant of the query without the remind_at filter.
IsDue_AnyInstant(row, nowv) == ~row.sent

\* where(Reminder.sent.is_(False), Reminder.remind_at <= now)
IsDue(row, nowv) == ~row.sent /\ row.remind_at <= nowv

\* The due rows no dispatch run in flight holds: a fetch that claims its rows.
DueIds_Unclaimed ==
    {id \in ReminderIds :
        /\ IsDue(reminders[id], now)
        /\ \A w \in DOMAIN run :
              run[w].pc \in {"loop", "commit"} =>
                 \A k \in DOMAIN run[w].batch : run[w].batch[k].id # id}

DueIds == {id \in ReminderIds : IsDue(reminders[id], now)}

\* ReminderService.get_due_reminders: the lists the query may return, the
\* first `limit` due rows by remind_at; rows with equal remind_at come in an
\* order the query does not fix.
GetDueReminders(limit) ==
    LET n == Min(limit, Cardinality(DueIds))
    IN  {s \in [1..n -> DueIds] :
            /\ \A j, k \in 1..n : j < k =>
                  /\ s[j] # s[k]
                  /\ reminders[s[j]].remind_at <= reminders[s[k]].remind_at
            /\ \A id \in DueIds \ Range(s) : \A k \in 1..n :
                  reminders[s[k]].remind_at <= reminders[id].remind_at}

\* -------------------------------------------------- dispatch_due_reminders

Workers == {1, 2}

\* deliveries counts the messages of one reminder up to one per worker.
MaxDeliveries == Cardinality(Workers)

Idle ==
    [pc |-> "idle", batch |-> <<>>, i |-> 1, dirty |-> {}, processed |-> 0,
     out |-> <<>>, commit |-> "none"]

Delivered(id) == IF id \in DOMAIN deliveries THEN deliveries[id] ELSE 0

\* task = reminder.task; user = task.user if task else None;
\* not task or not user or not user.telegram_id
Undeliverable(task_id) ==
    \/ task_id \notin TaskIds
    \/ tasks[task_id].user_id = Null
    \/ ~HasTelegramId(tasks[task_id].user_id)

\* The Reminder objects the session loaded, each with its task and user.
Loaded(ids) == [k \in DOMAIN ids |->
                  [id |-> ids[k], task_id |-> reminders[ids[k]].task_id]]

BatchIds(w) == {run[w].batch[k].id : k \in DOMAIN run[w].batch}

\* reminders = await service.get_due_reminders(limit=batch_size);
\* if not reminders: return 0
Fetch(w) ==
    /\ run[w].pc \in {"idle", "done", "aborted"}
    /\ \E batch \in GetDueReminders(batchSize) :
          run' = [run EXCEPT ![w] =
                    IF batch = <<>>
                    THEN [Idle EXCEPT !.pc = "done"]
                    ELSE [Idle EXCEPT !.pc = "loop", !.batch = Loaded(batch)]]
    /\ UNCHANGED <<now, botToken, prefs, tasks, reminders, nextId, batchSize, deliveries,
                   lastCall, report, window, serviceVars>>

\* What TelegramAdapter.send_message may do: post the message and return,
\* return {"ok": False} without posting when no token is configured, or raise.
SendOutcomes == IF botToken THEN {"ok", "raise"} ELSE {"skipped"}

\* Variants: sent is set whatever the send did; sent is set only on a send
\* that returned, not on an undeliverable reminder.
MarksSent_OnRaise(outcome) == TRUE

MarksSent_OnlyDelivered(outcome) == outcome \in {"ok", "skipped"}

\* reminder.sent = True is reached unless send_message raised
MarksSent(outcome) == outcome # "raise"

\* i18n._ensure_timezone raises: only ZoneInfoNotFoundError is caught there.
EnsureTimezoneRaises(timezone_name) ==
    LET candidate == IF timezone_name # NoZone THEN timezone_name ELSE DefaultTimezone
    IN  ZoneInfoError(candidate) = "ValueError"

\* A variant in which composing the message never raises.
ComposeRaises_Never(task_id) == FALSE

\* The statements between the undeliverable test and the try: composing the
\* message raises when format_datetime(task.due_at, locale, user_timezone) does.
ComposeRaises(task_id) ==
    /\ tasks[task_id].due_at # Null
    /\ EnsureTimezoneRaises(UserTimezone(tasks[task_id].user_id))

\* What the loop body may do for a reminder.
LoopOutcomes(task_id) ==
    IF Undeliverable(task_id) THEN {"undeliverable"}
    ELSE IF ComposeRaises(task_id) THEN {"compose_error"}
    ELSE SendOutcomes

\* One pass of the loop body, for reminders[i].  An exception outside the
\* try leaves the loop and the session without a commit.
DispatchOne(w) ==
    /\ run[w].pc = "loop"
    /\ LET r == run[w]
           id == r.batch[r.i].id
           last == r.i = Len(r.batch)
       IN  \E outcome \in LoopOutcomes(r.batch[r.i].task_id) :
              /\ outcome = "ok" => Delivered(id) < MaxDeliveries
              /\ run' = [run EXCEPT ![w] =
                    [r EXCEPT
                       !.i = r.i + 1,
                       !.out = Append(r.out, outcome),
                       !.dirty = IF outcome = "compose_error" THEN {}
                                 ELSE IF MarksSent(outcome) THEN r.dirty \cup {id}
                                 ELSE r.dirty,
                       !.processed = IF outcome \in {"ok", "skipped"}
                                     THEN r.processed + 1 ELSE r.processed,
                       !.pc = IF outcome = "compose_error" THEN "aborted"
                              ELSE IF last THEN "commit" ELSE "loop"]]
              /\ deliveries' = IF outcome = "ok"
                               THEN AddRow(deliveries, id, Delivered(id) + 1)
                               ELSE deliveries
    /\ UNCHANGED <<now, botToken, prefs, tasks, reminders, nextId, batchSize, lastCall,
                   report, window, serviceVars>>

\* A variant that deletes the rows this session set sent on.
Persisted_Deleting(table, dirty) == [id \in (DOMAIN table) \ dirty |-> table[id]]

\* The UPDATEs session.commit() flushes: the rows this session set sent on.
Persisted(table, dirty) ==
    [id \in DOMAIN table |->
        IF id \in dirty THEN [table[id] EXCEPT !.sent = TRUE] ELSE table[id]]

\* A variant in which a failed commit leaves its UPDATEs in the table.
AfterFailedCommit_Partial(table, dirty) == Persisted(table, dirty)

\* except SQLAlchemyError: await session.rollback()
AfterFailedCommit(table, dirty) == table

\* await session.commit() succeeds; return processed
CommitOk(w) ==
    /\ run[w].pc = "commit"
    /\ run[w].dirty \subseteq ReminderIds
    /\ reminders' = Persisted(reminders, run[w].dirty)
    /\ run' = [run EXCEPT ![w].pc = "done", ![w].commit = "ok"]
    /\ UNCHANGED <<now, botToken, prefs, tasks, nextId, batchSize, deliveries, lastCall,
                   report, window, serviceVars>>

\* await session.commit() raises SQLAlchemyError (the database fails, or a
\* row of the batch was deleted meanwhile); return processed
CommitFails(w) ==
    /\ run[w].pc = "commit"
    /\ reminders' = AfterFailedCommit(reminders, run[w].dirty)
    /\ run' = [run EXCEPT ![w].pc = "done", ![w].commit = "failed"]
    /\ UNCHANGED <<now, botToken, prefs, tasks, nextId, batchSize, deliveries, lastCall,
                   report, window, serviceVars>>

Tick ==
    /\ now' = now + Step
    /\ UNCHANGED <<botToken, prefs, tasks, reminders, nextId, batchSize, run, deliveries, lastCall,
                   report, window, serviceVars>>

\* ------------------------------------------------------ creating reminders

\* ReminderService.schedule for each instant in turn.
RECURSIVE ScheduleAll(_, _, _)
ScheduleAll(db, task_id, times) ==
    IF times = <<>> THEN db
    ELSE ScheduleAll(ScheduleInto(db, task_id, Head(times)), task_id, Tail(times))

\* ReminderService.schedule_default_reminders(task, task.user)
ScheduleDefaultReminders(t) ==
    /\ t \in TaskIds
    /\ ~ComputeRaises(tasks[t].due_at, tasks[t].user_id)
    /\ LET times == ComputeDefaultTimes(tasks[t].due_at, tasks[t].user_id, now)
           db == ScheduleAll([table |-> reminders, nid |-> nextId], t, times)
       IN  /\ reminders' = db.table
           /\ nextId' = db.nid
    /\ UNCHANGED <<now, botToken, prefs, tasks, batchSize, run, deliveries, lastCall,
                   report, window, serviceVars>>

\* TaskService.create_task (and create_for_principal, which calls it)
CreateTask(user_id, due_at) ==
    /\ tasks' = Append(tasks, [user_id |-> user_id, due_at |-> due_at])
    /\ UNCHANGED <<now, botToken, prefs, reminders, nextId, batchSize, run, deliveries,
                   lastCall, report, window, serviceVars>>

\* TaskService.update_task(task_id, due_at=due_at)
UpdateTask(t, due_at) ==
    /\ t \in TaskIds
    /\ tasks[t].due_at # due_at
    /\ tasks' = [tasks EXCEPT ![t].due_at = due_at]
    /\ UNCHANGED <<now, botToken, prefs, reminders, nextId, batchSize, run, deliveries,
                   lastCall, report, window, serviceVars>>

\* A variant without the clamp.
ChatRemindAt_Unclamped(due_at, offset, now_utc) ==
    IF due_at = Null THEN now_utc + offset ELSE due_at - offset

\* remind_at = task.due_at - offset if task.due_at else now_utc + offset;
\* if remind_at <= now_utc: remind_at = now_utc + offset
ChatRemindAt(due_at, offset, now_utc) ==
    LET remind_at == IF due_at # Null THEN due_at - offset ELSE now_utc + offset
    IN  IF remind_at <= now_utc THEN now_utc + offset ELSE remind_at

\* reminder_offset = int(user.preferences.get("default_reminder_minutes", 15))
ChatOffset(pref) ==
    IF pref.kind = "absent" THEN ChatDefaultReminderMinutes ELSE pref.num

\* session.add(Reminder(task_id=task.id, remind_at=remind_at)) for each task
RECURSIVE ChatReminders(_, _, _, _, _)
ChatReminders(db, first, dues, offset, now_utc) ==
    IF dues = <<>> THEN db
    ELSE ChatReminders(
            [table |-> AddRow(db.table, db.nid,
                         NewReminder(first, ChatRemindAt(Head(dues), offset, now_utc))),
             nid |-> db.nid + 1],
            first + 1, Tail(dues), offset, now_utc)

\* create_tasks of the chat path, for a user and the due instants of the
\* payload's tasks; int() raises on a list preference before anything is added.
ChatCreateTasks(user, dues) ==
    /\ prefs[user].kind # "list"
    /\ dues # <<>>
    /\ tasks' = tasks \o [k \in DOMAIN dues |-> [user_id |-> user, due_at |-> dues[k]]]
    /\ LET db == ChatReminders([table |-> reminders, nid |-> nextId],
                    Len(tasks) + 1, dues, ChatOffset(prefs[user]), now)
       IN  /\ reminders' = db.table
           /\ nextId' = db.nid
    /\ UNCHANGED <<now, botToken, prefs, batchSize, run, deliveries, lastCall, report, window, serviceVars>>

\* Once per call: compute_default_times(due_at, user), its result recorded.
ComputeCall(due_at, user) ==
    /\ lastCall' = [due_at |-> due_at, user |-> user, now |-> now,
                    raised |-> ComputeRaises(due_at, user),
                    out |-> IF ComputeRaises(due_at, user) THEN <<>>
                            ELSE ComputeDefaultTimes(due_at, user, now)]
    /\ UNCHANGED <<now, botToken, prefs, tasks, reminders, nextId, batchSize, run,
                   deliveries, report, window, serviceVars>>

\* ----------------------------------------------------------- report windows

\* Anchor dates run over the years 2023 .. 2022 + MaxYears (2024 is a leap year).
MaxYears == 2

\* Rows of the tasks table a report is generated over.
MaxReportTasks == 2

\* Days the clock of the subscription runs for; the longest period bought.
MaxDays == 3

MaxDuration == 2

Years == 2023..(2022 + MaxYears)

IsLeap(y) == (y % 4 = 0 /\ y % 100 # 0) \/ y % 400 = 0

DaysInMonth(y, m) ==
    IF m = 2 THEN (IF IsLeap(y) THEN 29 ELSE 28)
    ELSE IF m \in {4, 6, 9, 11} THEN 30 ELSE 31

\* A date; a local datetime at 00:00 is the date it falls on.
IsDate(date) == date.m \in 1..12 /\ date.d \in 1..DaysInMonth(date.y, date.m)

Dates == {date \in [y : Years, m : 1..12, d : 1..31] : IsDate(date)}

\* report_date = None.
NoDate == [y |-> 0, m |-> 0, d |-> 0]

MinutesPerDay == 24 * 60

\* date + timedelta(days=1)
NextDay(date) ==
    IF date.d < DaysInMonth(date.y, date.m) THEN [date EXCEPT !.d = date.d + 1]
    ELSE IF date.m < 12 THEN [y |-> date.y, m |-> date.m + 1, d |-> 1]
    ELSE [y |-> date.y + 1, m |-> 1, d |-> 1]

\* date + timedelta(days=n)
RECURSIVE AddDays(_, _)
AddDays(date, n) == IF n = 0 THEN date ELSE AddDays(NextDay(date), n - 1)

RECURSIVE DaysBeforeYear(_)
DaysBeforeYear(y) ==
    IF y <= 2023 THEN 0
    ELSE DaysBeforeYear(y - 1) + (IF IsLeap(y - 1) THEN 366 ELSE 365)

RECURSIVE DaysBeforeMonth(_, _)
DaysBeforeMonth(y, m) ==
    IF m = 1 THEN 0 ELSE DaysBeforeMonth(y, m - 1) + DaysInMonth(y, m - 1)

\* Days from 2023-01-01, the day instant 0 falls on, to the date.
DayNumber(date) == DaysBeforeYear(date.y) + DaysBeforeMonth(date.y, date.m) + date.d - 1

\* 2023-01-01 is a Sunday: 0 is Sunday.
Weekday(date) == DayNumber(date) % 7

LastSunday(y, m) ==
    CHOOSE date \in [y : {y}, m : {m}, d : (DaysInMonth(y, m) - 6)..DaysInMonth(y, m)] :
        Weekday(date) = 0

\* Europe/Stockholm at 00:00 of the date: summer time has begun (02:00 on the
\* last Sunday of March) and has not ended (03:00 on the last Sunday of October).
SummerAtMidnight(date) ==
    /\ DayNumber(date) > DayNumber(LastSunday(date.y, 3))
    /\ DayNumber(date) <= DayNumber(LastSunday(date.y, 10))

\* The zone's offset from UTC in minutes at 00:00 local time of the date.
UtcOffset(tz, date) ==
    CASE tz = "Asia/Tehran" -> 3 * 60 + 30
      [] tz = "Europe/Stockholm" -> IF SummerAtMidnight(date) THEN 2 * 60 ELSE 60
      [] OTHER -> 0

\* Europe/Stockholm at a UTC instant: both changes happen at 01:00 UTC.
SummerAtInstant(instant) ==
    \E y \in 2023..(2023 + MaxYears) :
        /\ instant >= DayNumber(LastSunday(y, 3)) * MinutesPerDay + 60
        /\ instant < DayNumber(LastSunday(y, 10)) * MinutesPerDay + 60

\* The zone's offset from UTC in minutes at a UTC instant.
UtcOffsetAt(tz, instant) ==
    CASE tz = "Asia/Tehran" -> 3 * 60 + 30
      [] tz = "Europe/Stockholm" -> IF SummerAtInstant(instant) THEN 2 * 60 ELSE 60
      [] OTHER -> 0

\* local.astimezone(timezone.utc), for a local datetime at 00:00
ToUtc(date, tz) == DayNumber(date) * MinutesPerDay - UtcOffset(tz, date)

\* The date n days after the first of a month, month by month.
RECURSIVE DateFrom(_, _)
DateFrom(first, n) ==
    IF n < DaysInMonth(first.y, first.m) THEN [first EXCEPT !.d = n + 1]
    ELSE DateFrom(NextDay([first EXCEPT !.d = DaysInMonth(first.y, first.m)]),
                  n - DaysInMonth(first.y, first.m))

\* datetime.now(timezone.utc).astimezone(tz).replace(hour=0, minute=0, ...)
Today(nowv, tz) ==
    DateFrom([y |-> 2023, m |-> 1, d |-> 1],
             (nowv + UtcOffsetAt(tz, nowv)) \div MinutesPerDay)

ReportTypes == {"daily", "weekly", "monthly"}

\* A variant that steps 30 days from the first of the month.
NextMonth_ThirtyDays(window_start_local) ==
    [AddDays(window_start_local, 30) EXCEPT !.d = 1]

\* (window_start_local + timedelta(days=32)).replace(day=1)
NextMonth(window_start_local) ==
    [AddDays(window_start_local, 32) EXCEPT !.d = 1]

\* ReportService._calculate_window: the local bounds, the UTC bounds and the
\* third value of the returned tuple.
CalculateWindow(report_type, report_date, tz, nowv) ==
    LET anchor == IF report_date # NoDate THEN report_date ELSE Today(nowv, tz)
        window_start_local ==
            IF report_type = "monthly" THEN [anchor EXCEPT !.d = 1] ELSE anchor
        window_end_local ==
            IF report_type = "weekly" THEN AddDays(anchor, 7)
            ELSE IF report_type = "monthly" THEN NextMonth(window_start_local)
            ELSE AddDays(anchor, 1)
    IN  [start_local |-> window_start_local,
         end_local |-> window_end_local,
         start_utc |-> ToUtc(window_start_local, tz),
         end_utc |-> ToUtc(window_end_local, tz),
         anchor |-> window_start_local]

\* Once per call: _calculate_window(report_type, report_date, tz), recorded.
WindowCall(report_type, report_date, tz) ==
    /\ window' = [outcome |-> "returned", report_type |-> report_type,
                  date |-> report_date, tz |-> tz, now |-> now,
                  out |-> CalculateWindow(report_type, report_date, tz, now)]
    /\ UNCHANGED <<now, botToken, prefs, tasks, reminders, nextId, batchSize, run,
                   deliveries, lastCall, report, serviceVars>>

\* ---------------------------------------------------------- ReportService

ReportFormats == {"text", "pdf", "csv"}

\* task.status = None.
NoStatus == ""

\* file_url = None.
NoFile == ""

\* The projects table: project 1 belongs to team 1, project 2 to no team.
ProjectTeam(project_id) == IF project_id = 1 THEN 1 ELSE Null

\* ReportService._fetch_user
FetchUser(user_id) == IF user_id \in Users THEN user_id ELSE Null

\* A variant whose last resort is the configured default again.
LastResort_Default(default) == default

\* return ZoneInfo("UTC")
LastResort(default) == "UTC"

\* ReportService._resolve_timezone with settings.default_timezone = default:
\* the zone returned, or raised when the last ZoneInfo call raises.
ResolveTimezone(name, default) ==
    LET candidate == IF name # NoZone THEN name ELSE default
    IN  IF ZoneInfoError(candidate) = "" THEN [raised |-> FALSE, zone |-> candidate]
        ELSE IF ZoneInfoError(default) = "" THEN [raised |-> FALSE, zone |-> default]
        ELSE IF ZoneInfoError(LastResort(default)) = ""
             THEN [raised |-> FALSE, zone |-> LastResort(default)]
        ELSE [raised |-> TRUE, zone |-> NoZone]

\* Once per call: _resolve_timezone(name), recorded; the configured default
\* is the one the settings were loaded with.
ResolveCall(name) ==
    /\ zone' = [zone EXCEPT !.outcome = "called", !.name = name,
                            !.out = ResolveTimezone(name, zone.default)]
    /\ UNCHANGED <<now, botToken, prefs, tasks, reminders, nextId, batchSize, run,
                   deliveries, lastCall, report, window, subscription, access, sched>>

\* A variant that looks at the organization before the user.
DetermineScope_OrganizationFirst(payload) ==
    IF payload.organization_id # Null THEN "organization"
    ELSE IF payload.user_id # Null THEN "user"
    ELSE IF payload.project_id # Null THEN "project"
    ELSE IF payload.team_id # Null THEN "team"
    ELSE "user"

\* ReportService._determine_scope
DetermineScope(payload) ==
    IF payload.user_id # Null THEN "user"
    ELSE IF payload.project_id # Null THEN "project"
    ELSE IF payload.team_id # Null THEN "team"
    ELSE IF payload.organization_id # Null THEN "organization"
    ELSE "user"

\* A variant whose team filter looks at the task's assignment only.
Selected_AssignmentOnly(task, payload, window_start, window_end) ==
    /\ task.created_at >= window_start
    /\ task.created_at < window_end
    /\ payload.user_id # Null => task.user_id = payload.user_id
    /\ payload.organization_id # Null => task.organization_id = payload.organization_id
    /\ payload.project_id # Null => task.project_id = payload.project_id
    /\ payload.team_id # Null => task.assigned_team_id = payload.team_id

\* The WHERE clause of ReportService._fetch_tasks.
Selected(task, payload, window_start, window_end) ==
    /\ task.created_at >= window_start
    /\ task.created_at < window_end
    /\ payload.user_id # Null => task.user_id = payload.user_id
    /\ payload.organization_id # Null => task.organization_id = payload.organization_id
    /\ payload.project_id # Null => task.project_id = payload.project_id
    /\ payload.team_id # Null =>
          \/ task.assigned_team_id = payload.team_id
          \/ task.project_id # Null /\ ProjectTeam(task.project_id) = payload.team_id

\* ReportService._fetch_tasks: the lists the query may return, ordered by
\* created_at (rows with the same created_at come in any order).
FetchTasks(payload, window_start, window_end) ==
    LET ids == {t \in TaskIds : Selected(tasks[t], payload, window_start, window_end)}
    IN  {s \in [1..Cardinality(ids) -> ids] :
            /\ \A i, j \in DOMAIN s : i # j => s[i] # s[j]
            /\ \A i, j \in DOMAIN s :
                  i < j => tasks[s[i]].created_at <= tasks[s[j]].created_at}

\* str.lower() on the status values of the model.
Lower(status) ==
    CASE status = "Done" -> "done"
      [] status = "COMPLETED" -> "completed"
      [] OTHER -> status

\* A variant that looks at the status only.
IsCompleted_StatusOnly(task) ==
    Lower(task.status) \in {"done", "completed", "resolved"}

\* ReportService._is_completed
IsCompleted(task) ==
    Lower(task.status) \in {"done", "completed", "resolved"} \/ task.end_at # Null

\* AnalyticsService.get_summary: Task.status == "completed"
AnalyticsCompleted(task) == task.status = "completed"

\* telegram_router.build_report: pending is task.status != "completed"
ChatCompleted(task) == ~(task.status # "completed")

\* A variant that counts a task due at or before the evaluation instant.
IsOverdue_AtOrBefore(task, now_utc) ==
    ~IsCompleted(task) /\ task.due_at # Null /\ task.due_at <= now_utc

\* The elif branch of _compute_counts, after the completed branch.
IsOverdue(task, now_utc) ==
    ~IsCompleted(task) /\ task.due_at # Null /\ task.due_at < now_utc

\* ReportService._compute_counts
ComputeCounts(fetched, now_utc) ==
    [total |-> Len(fetched),
     completed |-> Cardinality({i \in DOMAIN fetched : IsCompleted(tasks[fetched[i]])}),
     overdue |-> Cardinality({i \in DOMAIN fetched : IsOverdue(tasks[fetched[i]], now_utc)})]

\* datetime.max, later than every instant of the model.
DatetimeMax == (DaysBeforeYear(2023 + MaxYears) + 1) * MinutesPerDay

\* Tuples of two integers in the order Python compares them.
TupleLess(a, b) == a[1] < b[1] \/ (a[1] = b[1] /\ a[2] < b[2])

\* list.sort(key=...), which is stable: x goes after the items not greater.
RECURSIVE InsertByKey(_, _, _)
InsertByKey(s, x, key) ==
    IF s = <<>> THEN <<x>>
    ELSE IF TupleLess(key[x], key[Head(s)]) THEN <<x>> \o s
    ELSE <<Head(s)>> \o InsertByKey(Tail(s), x, key)

RECURSIVE SortByKey(_, _)
SortByKey(s, key) ==
    IF s = <<>> THEN <<>>
    ELSE InsertByKey(SortByKey(SubSeq(s, 1, Len(s) - 1), key), s[Len(s)], key)

\* The items of a list that satisfy a test, in the order of the list.
RECURSIVE Filter(_, _)
Filter(s, keep) ==
    IF s = <<>> THEN <<>>
    ELSE IF Head(s) \in keep THEN <<Head(s)>> \o Filter(Tail(s), keep)
    ELSE Filter(Tail(s), keep)

\* pending[:limit]
Prefix(s, limit) == SubSeq(s, 1, Min(limit, Len(s)))

\* The limit of _select_next_tasks and _select_overdue_tasks.
PreviewLimit == 3

\* ReportService._select_next_tasks, as task ids.
SelectNextTasks(fetched) ==
    LET pending == Filter(fetched, {t \in TaskIds : ~IsCompleted(tasks[t])})
        key == [t \in TaskIds |->
                   <<IF tasks[t].due_at # Null THEN tasks[t].due_at ELSE DatetimeMax,
                     tasks[t].created_at>>]
    IN  Prefix(SortByKey(pending, key), PreviewLimit)

\* ReportService._select_overdue_tasks, as task ids.
SelectOverdueTasks(fetched, now_utc) ==
    LET overdue_tasks ==
            Filter(fetched, {t \in TaskIds :
                       /\ tasks[t].due_at # Null
                       /\ tasks[t].due_at < now_utc
                       /\ ~IsCompleted(tasks[t])})
        key == [t \in TaskIds |-> <<tasks[t].due_at, 0>>]
    IN  Prefix(SortByKey(overdue_tasks, key), PreviewLimit)

\* format_date(task.due_at, locale, tz): the local date the instant falls on.
LocalDate(instant, tz) == Today(instant, tz)

\* A variant that buckets only the tasks due before the evaluation instant.
InTrend_PastDue(task, now_utc) == IsOverdue(task, now_utc)

\* The elif branch of _compute_org_metrics: elif task.due_at
InTrend(task, now_utc) == ~IsCompleted(task) /\ task.due_at # Null

\* round(completed / throughput * 100, 1), in tenths of a percent.
CompletionRate(completed, throughput) ==
    IF throughput = 0 THEN 0
    ELSE (2 * completed * 1000 + throughput) \div (2 * throughput)

\* ReportService._compute_org_metrics; overdue_trend is kept as the set of
\* its points.
ComputeOrgMetrics(fetched, tz, now_utc) ==
    LET bucketed == {i \in DOMAIN fetched : InTrend(tasks[fetched[i]], now_utc)}
        period(i) == LocalDate(tasks[fetched[i]].due_at, tz)
        completed == Cardinality({i \in DOMAIN fetched : IsCompleted(tasks[fetched[i]])})
    IN  [throughput |-> Len(fetched),
         completion_rate |-> CompletionRate(completed, Len(fetched)),
         overdue_trend |->
             {[period |-> period(i),
               overdue |-> Cardinality({j \in bucketed : period(j) = period(i)})] :
                 i \in bucketed},
         active_users |->
             Cardinality({tasks[fetched[i]].user_id : i \in DOMAIN fetched} \ {Null})]

\* user scope without metrics
NoMetrics == [throughput |-> Null]

\* _format_user_summary: the header and the date it shows, the counts, the previews.
FormatUserSummary(report_type, anchor, counts, next_tasks, overdue_tasks) ==
    [header |-> CASE report_type = "weekly" -> "report_user_header_weekly"
                  [] report_type = "monthly" -> "report_user_header_monthly"
                  [] OTHER -> "report_user_header_daily",
     date |-> anchor,
     counts |-> counts,
     next_tasks |-> next_tasks,
     overdue_tasks |-> overdue_tasks]

\* _format_org_summary: the header, the period label, the counts, the metrics.
FormatOrgSummary(scope, report_type, counts, metrics) ==
    [header |-> CASE scope = "team" -> "report_org_header_team"
                  [] scope = "project" -> "report_org_header_project"
                  [] OTHER -> "report_org_header_organization",
     period |-> report_type,
     counts |-> counts,
     metrics |-> metrics]

\* A variant that renders a file for every format but text.
RendersFile_AnyFormat(scope, format) == format # "text"

\* generate: the branch that calls _render_user_pdf or _render_org_csv.
RendersFile(scope, format) ==
    \/ scope = "user" /\ format = "pdf"
    \/ scope # "user" /\ format = "csv"

\* file_path.as_posix() of the rendered file.
FilePath(scope, format) == IF scope = "user" THEN "report.pdf" ELSE "report.csv"

\* A variant that reports the text format when no file is rendered.
ResponseFormat_Used(scope, format) ==
    IF RendersFile(scope, format) THEN format ELSE "text"

\* ReportResponse(..., format=payload.format, ...)
ResponseFormat(scope, format) == format

\* A variant in which a later read of the clock gives the earlier reading.
ClockAfter_Frozen(now_utc) == {now_utc}

\* datetime.now(timezone.utc) read again later in the same call: the same
\* reading, or the next one when the clock has moved on in between.
ClockAfter(now_utc) == {now_utc, now_utc + Step}

\* ReportService.generate(payload, principal): the response is recorded, or
\* the exception of a renderer that could not write its file.
Generate(payload) ==
    LET user == FetchUser(payload.user_id)
        tz == ResolveTimezone(
                  IF payload.timezone # NoZone THEN payload.timezone
                  ELSE IF user # Null THEN UserTimezone(user) ELSE NoZone,
                  DefaultTimezone).zone
        w == CalculateWindow(payload.report_type, payload.date, tz, now)
        scope == DetermineScope(payload)
    IN  \E fetched \in FetchTasks(payload, w.start_utc, w.end_utc), written \in BOOLEAN,
           later \in (IF scope = "user" THEN ClockAfter(now) ELSE {now}) :
          LET counts == ComputeCounts(fetched, now)
              next_tasks == IF scope = "user" THEN SelectNextTasks(fetched) ELSE <<>>
              overdue_tasks ==
                  IF scope = "user" THEN SelectOverdueTasks(fetched, later) ELSE <<>>
              metrics ==
                  IF scope = "user" THEN NoMetrics
                  ELSE ComputeOrgMetrics(fetched, tz, now)
              summary ==
                  IF scope = "user"
                  THEN FormatUserSummary(payload.report_type, w.anchor, counts,
                                         next_tasks, overdue_tasks)
                  ELSE FormatOrgSummary(scope, payload.report_type, counts, metrics)
              renders == RendersFile(scope, payload.format)
          IN  /\ ~renders => written
              /\ report' =
                    IF renders /\ ~written
                    THEN [outcome |-> "raised", payload |-> payload, now |-> now]
                    ELSE [outcome |-> "returned", payload |-> payload, now |-> now,
                          preview_now |-> later,
                          tz |-> tz,
                          fetched |-> Range(fetched),
                          order |-> fetched,
                          wrote |-> IF renders
                                    THEN {FilePath(scope, payload.format)} ELSE {},
                          response |->
                              [report_type |-> payload.report_type,
                               scope |-> scope,
                               summary |-> summary,
                               counts |-> counts,
                               next_tasks |-> next_tasks,
                               overdue_tasks |-> overdue_tasks,
                               metrics |-> metrics,
                               file_url |-> IF renders
                                            THEN FilePath(scope, payload.format)
                                            ELSE NoFile,
                               format |-> ResponseFormat(scope, payload.format)]]
              /\ now' = later
              /\ UNCHANGED <<botToken, prefs, tasks, reminders, nextId, batchSize,
                             run, deliveries, lastCall, window, serviceVars>>

\* TaskService.mark_done(task_id)
MarkDone(t) ==
    /\ t \in TaskIds
    /\ tasks' = [tasks EXCEPT ![t].status = "done", ![t].end_at = now]
    /\ UNCHANGED <<now, botToken, prefs, reminders, nextId, batchSize, run, deliveries,
                   lastCall, report, window, serviceVars>>

\* telegram_router.mark_latest_tasks_done, task_ids being the user's last_task_ids
MarkLatestTasksDone(task_ids) ==
    /\ task_ids # {}
    /\ task_ids \subseteq TaskIds
    /\ tasks' = [t \in TaskIds |->
                    IF t \in task_ids THEN [tasks[t] EXCEPT !.status = "completed"]
                    ELSE tasks[t]]
    /\ UNCHANGED <<now, botToken, prefs, reminders, nextId, batchSize, run, deliveries,
                   lastCall, report, window, serviceVars>>

\* ------------------------------------------------------ SubscriptionService

\* No subscriptions row; no check_access call yet.
NoSubscription == [status |-> "none", trial_end |-> Null, active_until |-> Null]

NoAccess == [outcome |-> "none", result |-> FALSE]

\* A variant in which a period never ends.
PeriodEnded_Never(period_end, now_utc) == FALSE

\* subscription.trial_end and subscription.trial_end < now
PeriodEnded(period_end, now_utc) == period_end # Null /\ period_end < now_utc

\* SubscriptionService._expire_if_needed: the row after it.
ExpireIfNeeded(row, now_utc) ==
    LET after_trial ==
            IF row.status = "trial" /\ PeriodEnded(row.trial_end, now_utc)
            THEN [row EXCEPT !.status = "expired"] ELSE row
    IN  IF after_trial.status = "active" /\ PeriodEnded(after_trial.active_until, now_utc)
        THEN [after_trial EXCEPT !.status = "expired"] ELSE after_trial

\* SubscriptionService.check_access(subject_type, subject_id)
CheckAccess ==
    /\ subscription' =
          IF subscription = NoSubscription THEN subscription
          ELSE ExpireIfNeeded(subscription, now)
    /\ access' = [outcome |-> "returned",
                  result |-> /\ subscription # NoSubscription
                             /\ subscription'.status \in {"trial", "active"}]
    /\ UNCHANGED <<now, botToken, prefs, tasks, reminders, nextId, batchSize, run,
                   deliveries, lastCall, report, window, zone, sched>>

\* SubscriptionService.start_trial(days=days, start_at=now), committed by
\* UserService.create_user or UserService.touch_trial.
StartTrial(days) ==
    /\ subscription' = [status |-> "trial",
                        trial_end |-> now + days * MinutesPerDay,
                        active_until |-> now + days * MinutesPerDay]
    /\ UNCHANGED <<now, botToken, prefs, tasks, reminders, nextId, batchSize, run,
                   deliveries, lastCall, report, window, zone, access, sched>>

\* SubscriptionService.activate(duration_days=duration_days), committed by
\* PaymentService.verify_payment.
Activate(duration_days) ==
    /\ LET start_at == now
           baseline == IF subscription.active_until # Null
                       THEN subscription.active_until ELSE start_at
       IN  subscription' =
              [subscription EXCEPT
                 !.status = "active",
                 !.active_until =
                     (IF baseline < start_at THEN start_at ELSE baseline)
                        + duration_days * MinutesPerDay]
    /\ UNCHANGED <<now, botToken, prefs, tasks, reminders, nextId, batchSize, run,
                   deliveries, lastCall, report, window, zone, access, sched>>

\* SubscriptionService.cancel(subject_type, subject_id)
CancelSubscription ==
    /\ subscription # NoSubscription
    /\ subscription' = [subscription EXCEPT !.status = "canceled"]
    /\ UNCHANGED <<now, botToken, prefs, tasks, reminders, nextId, batchSize, run,
                   deliveries, lastCall, report, window, zone, access, sched>>

\* A day passes.
DayPasses ==
    /\ now' = now + MinutesPerDay
    /\ UNCHANGED <<botToken, prefs, tasks, reminders, nextId, batchSize, run, deliveries,
                   lastCall, report, window, serviceVars>>

\* ---------------------------------------------------------- specifications

\* A deliverable task, a task whose user has no telegram_id, a task with no user.
SeedTasks ==
    <<[user_id |-> 1, due_at |-> Step],
      [user_id |-> 2, due_at |-> Null],
      [user_id |-> Null, due_at |-> Null]>>

AbsentPref == [kind |-> "absent", num |-> 0, list |-> <<>>]

\* No generate call yet; no _calculate_window call yet.
NoReport == [outcome |-> "none"]

NoWindow == [outcome |-> "none"]

\* No _resolve_timezone call yet, under the configured default zone.
NoZoneCall ==
    [outcome |-> "none", default |-> DefaultTimezone, name |-> NoZone,
     out |-> [raised |-> FALSE, zone |-> NoZone]]

NoCall == [due_at |-> Null, user |-> Null, now |-> 0, raised |-> FALSE, out |-> <<>>]

DueChoices == DueInstants \cup {Null}

ClockRuns == now < MaxTicks * Step

\* The reminder lifecycle with two dispatch runs that may overlap: the
\* database holds the seed tasks and no reminder.
Init ==
    /\ now = 0
    /\ botToken = TRUE
    /\ prefs = [u \in Users |-> AbsentPref]
    /\ tasks = SeedTasks
    /\ reminders = NoRow
    /\ nextId = 1
    /\ batchSize \in 1..MaxScheduled
    /\ run = [w \in Workers |-> Idle]
    /\ deliveries = NoRow
    /\ lastCall = NoCall
    /\ report = NoReport
    /\ window = NoWindow
    /\ zone = NoZoneCall
    /\ subscription = NoSubscription
    /\ access = NoAccess
    /\ sched = [s \in Sessions |-> NoSchedule]

Next ==
    \/ ClockRuns /\ Tick
    \/ nextId <= MaxScheduled /\ \E t \in TaskIds, when \in Instants : Schedule(t, when)
    \/ \E id \in ReminderIds : Cancel(id)
    \/ \E id \in ReminderIds : MarkSent(id)
    \/ \E w \in Workers : Fetch(w)
    \/ \E w \in Workers : DispatchOne(w)
    \/ \E w \in Workers : CommitOk(w)
    \/ \E w \in Workers : CommitFails(w)

Spec == Init /\ [][Next]_vars

\* One dispatch run at a time over a table of pending reminders, nothing
\* else writing to it.  The table holds one row per (task, instant), in that
\* order.  The batch size takes the whole table or leaves one row out.
InitRun ==
    /\ now = 0
    /\ botToken \in BOOLEAN
    /\ prefs = [u \in Users |-> AbsentPref]
    /\ tasks = SeedTasks
    /\ \E n \in 1..RunReminders :
         \E table \in [1..n -> [task_id : DOMAIN SeedTasks, remind_at : Instants,
                                sent : {FALSE}]] :
            /\ \A j, k \in 1..n : j < k =>
                  \/ table[j].task_id < table[k].task_id
                  \/ /\ table[j].task_id = table[k].task_id
                     /\ table[j].remind_at < table[k].remind_at
            /\ reminders = table
            /\ nextId = n + 1
    /\ batchSize \in {RunReminders - 1, RunReminders}
    /\ run = [w \in Workers |-> Idle]
    /\ deliveries = NoRow
    /\ lastCall = NoCall
    /\ report = NoReport
    /\ window = NoWindow
    /\ zone = NoZoneCall
    /\ subscription = NoSubscription
    /\ access = NoAccess
    /\ sched = [s \in Sessions |-> NoSchedule]

NextRun ==
    \/ ClockRuns /\ Tick
    \/ Fetch(1)
    \/ DispatchOne(1)
    \/ CommitOk(1)
    \/ CommitFails(1)

SpecRun == InitRun /\ [][NextRun]_vars

\* The preferences the creation paths run under: none, one number, or a list
\* of two entries in descending order, every number one a due instant can go
\* back by.
CreatePrefs ==
    {p \in PrefValues :
        /\ p.num \in OffsetMinutes
        /\ \A k \in DOMAIN p.list : p.list[k].minutes \in OffsetMinutes
        /\ p.kind = "list" =>
              /\ Len(p.list) = 2
              /\ p.list[1].valid
              /\ p.list[1].minutes > p.list[2].minutes}

\* The paths that create tasks and reminders, for each of these preferences
\* of user 1.
InitCreate ==
    /\ now = 0
    /\ botToken = TRUE
    /\ \E p \in CreatePrefs : prefs = [u \in Users |-> IF u = 1 THEN p ELSE AbsentPref]
    /\ tasks = <<>>
    /\ reminders = NoRow
    /\ nextId = 1
    /\ batchSize = 1
    /\ run = [w \in Workers |-> Idle]
    /\ deliveries = NoRow
    /\ lastCall = NoCall
    /\ report = NoReport
    /\ window = NoWindow
    /\ zone = NoZoneCall
    /\ subscription = NoSubscription
    /\ access = NoAccess
    /\ sched = [s \in Sessions |-> NoSchedule]

NextCreate ==
    \/ ClockRuns /\ Tick
    \/ Len(tasks) < MaxTasks /\ \E due_at \in DueChoices : CreateTask(1, due_at)
    \/ \E t \in TaskIds, due_at \in DueChoices : UpdateTask(t, due_at)
    \/ /\ Len(tasks) < MaxTasks
       /\ nextId <= MaxCreated
       /\ \E due_at \in DueChoices : ChatCreateTasks(1, <<due_at>>)
    \/ \E t \in TaskIds :
          /\ nextId + Len(ComputeDefaultTimes(tasks[t].due_at, tasks[t].user_id, now))
                <= MaxCreated + 1
          /\ ScheduleDefaultReminders(t)
    \/ nextId <= MaxCreated /\ \E t \in TaskIds, when \in Instants : Schedule(t, when)

SpecCreate == InitCreate /\ [][NextCreate]_vars

\* compute_default_times as a function of its inputs: every preference of
\* user 1, every due instant, every reading of the clock.
InitTimes ==
    /\ now \in Instants
    /\ botToken = TRUE
    /\ \E p \in PrefValues : prefs = [u \in Users |-> IF u = 1 THEN p ELSE AbsentPref]
    /\ tasks = <<>>
    /\ reminders = NoRow
    /\ nextId = 1
    /\ batchSize = 1
    /\ run = [w \in Workers |-> Idle]
    /\ deliveries = NoRow
    /\ lastCall = NoCall
    /\ report = NoReport
    /\ window = NoWindow
    /\ zone = NoZoneCall
    /\ subscription = NoSubscription
    /\ access = NoAccess
    /\ sched = [s \in Sessions |-> NoSchedule]

NextTimes ==
    \E due_at \in DueChoices, user \in {1, Null} : ComputeCall(due_at, user)

SpecTimes == InitTimes /\ [][NextTimes]_vars

\* The clock readings the window is computed at: mid-day of the first day,
\* the last hour of a year in UTC, the leap day, and the last hour in UTC of
\* the day before summer time ends.
WindowNows ==
    {12 * 60,
     ToUtc([y |-> 2023, m |-> 12, d |-> 31], "UTC") + 23 * 60,
     ToUtc([y |-> 2024, m |-> 2, d |-> 29], "UTC") + 12 * 60,
     ToUtc(LastSunday(2023, 10), "UTC") - 30}

\* _calculate_window as a function of its inputs, one call in a behaviour:
\* every report type, every anchor date (and none), every zone.
InitWindow ==
    /\ now \in WindowNows
    /\ botToken = TRUE
    /\ prefs = [u \in Users |-> AbsentPref]
    /\ tasks = <<>>
    /\ reminders = NoRow
    /\ nextId = 1
    /\ batchSize = 1
    /\ run = [w \in Workers |-> Idle]
    /\ deliveries = NoRow
    /\ lastCall = NoCall
    /\ report = NoReport
    /\ window = NoWindow
    /\ zone = NoZoneCall
    /\ subscription = NoSubscription
    /\ access = NoAccess
    /\ sched = [s \in Sessions |-> NoSchedule]

NextWindow ==
    /\ window = NoWindow
    /\ \E report_type \in ReportTypes, report_date \in Dates \cup {NoDate}, tz \in Zones :
          WindowCall(report_type, report_date, tz)

SpecWindow == InitWindow /\ [][NextWindow]_vars

\* The clock reading of the report specifications: 2023-01-02 12:00 UTC.
ReportNow == MinutesPerDay + 12 * 60

\* A row of the tasks table as the report queries read it.
ReportTask(user_id, organization_id, project_id, assigned_team_id, status, end_at, due_at, created_at) ==
    [user_id |-> user_id, organization_id |-> organization_id,
     project_id |-> project_id, assigned_team_id |-> assigned_team_id,
     status |-> status, end_at |-> end_at, due_at |-> due_at,
     created_at |-> created_at]

\* Rows that differ in owner, organization, project and team, created today;
\* the last one at 00:00 UTC, where yesterday's window ends and today's starts.
ReportRows ==
    {ReportTask(1, 1, 1, Null, "pending", Null, ReportNow + Step, ReportNow - Step),
     ReportTask(2, Null, Null, 1, "done", ReportNow - Step, Null, ReportNow - Step),
     ReportTask(2, 1, 2, Null, "pending", Null, ReportNow - Step, ReportNow - 2 * Step),
     ReportTask(1, Null, Null, Null, "pending", Null, Null, MinutesPerDay)}

\* The requests: every combination of the four ids, every format and type.
ReportPayloads ==
    [report_type : ReportTypes,
     user_id : {Null, 1}, organization_id : {Null, 1},
     team_id : {Null, 1}, project_id : {Null, 1},
     date : {NoDate, [y |-> 2023, m |-> 1, d |-> 1]},
     timezone : {NoZone, "UTC"},
     format : ReportFormats]

\* generate as a function of the request, one call in a behaviour.
InitReport ==
    /\ now = ReportNow
    /\ botToken = TRUE
    /\ prefs = [u \in Users |-> AbsentPref]
    /\ tasks \in SeqsUpTo(ReportRows, MaxReportTasks)
    /\ reminders = NoRow
    /\ nextId = 1
    /\ batchSize = 1
    /\ run = [w \in Workers |-> Idle]
    /\ deliveries = NoRow
    /\ lastCall = NoCall
    /\ report = NoReport
    /\ window = NoWindow
    /\ zone = NoZoneCall
    /\ subscription = NoSubscription
    /\ access = NoAccess
    /\ sched = [s \in Sessions |-> NoSchedule]

NextReport ==
    /\ report = NoReport
    /\ \E payload \in ReportPayloads : Generate(payload)

SpecReport == InitReport /\ [][NextReport]_vars

\* The statuses the code writes ("pending", "done", "completed"), the third
\* word _is_completed knows, a capitalised one, and none.
Statuses == <<"pending", "done", "completed", "resolved", "Done", NoStatus>>

\* end_at: not ended, or ended before the clock reading.
EndChoices == <<Null, ReportNow - Step>>

\* due_at: never, yesterday, at the clock reading, tomorrow.
ReportDueChoices ==
    <<Null, ReportNow - MinutesPerDay, ReportNow, ReportNow + MinutesPerDay>>

CountRowKinds == Len(Statuses) * Len(EndChoices) * Len(ReportDueChoices)

\* Rows of one user created today: every status, ended or not, every due_at.
CountRow(k) ==
    ReportTask(1, 1, Null, Null,
               Statuses[(k % Len(Statuses)) + 1],
               EndChoices[((k \div Len(Statuses)) % Len(EndChoices)) + 1],
               ReportDueChoices[(k \div (Len(Statuses) * Len(EndChoices))) + 1],
               ReportNow - Step)

\* Every table of at most MaxReportTasks such rows, each listed once.
CountTables ==
    UNION {{[i \in 1..n |-> CountRow(g[i])] :
               g \in {h \in [1..n -> 0..(CountRowKinds - 1)] :
                         \A i \in 1..(n - 1) : h[i] <= h[i + 1]}} :
           n \in 0..MaxReportTasks}

\* The user's own daily report and the organization's, in two zones.
CountPayloads ==
    {[report_type |-> "daily", user_id |-> ids[1], organization_id |-> ids[2],
      team_id |-> Null, project_id |-> Null, date |-> NoDate, timezone |-> tz,
      format |-> "text"] :
        ids \in {<<1, Null>>, <<Null, 1>>}, tz \in {"UTC", "Asia/Tehran"}}

\* The counts and the metrics as functions of the fetched tasks: tasks are
\* completed by either path, then one report is generated.
InitCounts ==
    /\ now = ReportNow
    /\ botToken = TRUE
    /\ prefs = [u \in Users |-> AbsentPref]
    /\ tasks \in CountTables
    /\ reminders = NoRow
    /\ nextId = 1
    /\ batchSize = 1
    /\ run = [w \in Workers |-> Idle]
    /\ deliveries = NoRow
    /\ lastCall = NoCall
    /\ report = NoReport
    /\ window = NoWindow
    /\ zone = NoZoneCall
    /\ subscription = NoSubscription
    /\ access = NoAccess
    /\ sched = [s \in Sessions |-> NoSchedule]

Open(t) == tasks[t].status = "pending" /\ tasks[t].end_at = Null

NextCounts ==
    /\ report = NoReport
    /\ \/ \E payload \in CountPayloads : Generate(payload)
       \/ \E t \in TaskIds : Open(t) /\ MarkDone(t)
       \/ \E task_ids \in SUBSET TaskIds :
             (\A t \in task_ids : Open(t)) /\ MarkLatestTasksDone(task_ids)

SpecCounts == InitCounts /\ [][NextCounts]_vars

\* _resolve_timezone as a function of the requested name and the configured
\* default, one call in a behaviour.
InitZone ==
    /\ now = 0
    /\ botToken = TRUE
    /\ prefs = [u \in Users |-> AbsentPref]
    /\ tasks = <<>>
    /\ reminders = NoRow
    /\ nextId = 1
    /\ batchSize = 1
    /\ run = [w \in Workers |-> Idle]
    /\ deliveries = NoRow
    /\ lastCall = NoCall
    /\ report = NoReport
    /\ window = NoWindow
    /\ \E default \in ZoneKeys : zone = [NoZoneCall EXCEPT !.default = default]
    /\ subscription = NoSubscription
    /\ access = NoAccess
    /\ sched = [s \in Sessions |-> NoSchedule]

NextZone ==
    /\ zone.outcome = "none"
    /\ \E name \in ZoneKeys : ResolveCall(name)

SpecZone == InitZone /\ [][NextZone]_vars

\* One subject's subscription from registration on: trials, payments,
\* cancellation and access checks, as the days pass.
InitSubscription ==
    /\ now = 0
    /\ botToken = TRUE
    /\ prefs = [u \in Users |-> AbsentPref]
    /\ tasks = <<>>
    /\ reminders = NoRow
    /\ nextId = 1
    /\ batchSize = 1
    /\ run = [w \in Workers |-> Idle]
    /\ deliveries = NoRow
    /\ lastCall = NoCall
    /\ report = NoReport
    /\ window = NoWindow
    /\ zone = NoZoneCall
    /\ subscription = NoSubscription
    /\ access = NoAccess
    /\ sched = [s \in Sessions |-> NoSchedule]

NextSubscription ==
    \/ now < MaxDays * MinutesPerDay /\ DayPasses
    \/ \E days \in 1..MaxDuration : StartTrial(days)
    \/ /\ subscription.active_until <= MaxDays * MinutesPerDay
       /\ \E duration_days \in 1..MaxDuration : Activate(duration_days)
    \/ CancelSubscription
    \/ CheckAccess

SpecSubscription == InitSubscription /\ [][NextSubscription]_vars

\* A task of user 1, and two tasks of user 3, whose timezone is no zone key:
\* one with a due instant, one without.
ComposeTasks ==
    <<[user_id |-> 1, due_at |-> Step],
      [user_id |-> 3, due_at |-> Step],
      [user_id |-> 3, due_at |-> Null]>>

\* One dispatch run at a time over pending reminders of these tasks.
InitCompose ==
    /\ now = 0
    /\ botToken = TRUE
    /\ prefs = [u \in Users |-> AbsentPref]
    /\ tasks = ComposeTasks
    /\ \E n \in 1..RunReminders :
         \E table \in [1..n -> [task_id : DOMAIN ComposeTasks, remind_at : Instants,
                                sent : {FALSE}]] :
            /\ \A j, k \in 1..n : j < k =>
                  \/ table[j].task_id < table[k].task_id
                  \/ /\ table[j].task_id = table[k].task_id
                     /\ table[j].remind_at < table[k].remind_at
            /\ reminders = table
            /\ nextId = n + 1
    /\ batchSize \in {RunReminders - 1, RunReminders}
    /\ run = [w \in Workers |-> Idle]
    /\ deliveries = NoRow
    /\ lastCall = NoCall
    /\ report = NoReport
    /\ window = NoWindow
    /\ zone = NoZoneCall
    /\ subscription = NoSubscription
    /\ access = NoAccess
    /\ sched = [s \in Sessions |-> NoSchedule]

NextCompose ==
    \/ ClockRuns /\ Tick
    \/ Fetch(1)
    \/ DispatchOne(1)
    \/ CommitOk(1)
    \/ CommitFails(1)

SpecCompose == InitCompose /\ [][NextCompose]_vars

\* The seed tasks as full rows, created at the first instant.
FrameTasks ==
    <<ReportTask(1, 1, Null, Null, "pending", Null, Step, 0),
      ReportTask(2, 1, Null, Null, "pending", Null, Null, 0),
      ReportTask(Null, 1, Null, Null, "done", 0, Null, 0)>>

\* A user's report and an organization's, as text.
FramePayloads ==
    {[report_type |-> "daily", user_id |-> ids[1], organization_id |-> ids[2],
      team_id |-> Null, project_id |-> Null, date |-> NoDate, timezone |-> "UTC",
      format |-> "text"] : ids \in {<<1, Null>>, <<Null, 1>>}}

\* Dispatch runs and one report over the same database: one pending
\* reminder per task.
InitFrame ==
    /\ now = 0
    /\ botToken \in BOOLEAN
    /\ prefs = [u \in Users |-> AbsentPref]
    /\ tasks = FrameTasks
    /\ \E when \in [DOMAIN FrameTasks -> Instants] :
          reminders = [t \in DOMAIN FrameTasks |-> NewReminder(t, when[t])]
    /\ nextId = Len(FrameTasks) + 1
    /\ batchSize \in 1..Len(FrameTasks)
    /\ run = [w \in Workers |-> Idle]
    /\ deliveries = NoRow
    /\ lastCall = NoCall
    /\ report = NoReport
    /\ window = NoWindow
    /\ zone = NoZoneCall
    /\ subscription = NoSubscription
    /\ access = NoAccess
    /\ sched = [s \in Sessions |-> NoSchedule]

NextFrame ==
    \/ ClockRuns /\ Tick
    \/ Fetch(1)
    \/ DispatchOne(1)
    \/ CommitOk(1)
    \/ CommitFails(1)
    \/ report = NoReport /\ \E payload \in FramePayloads : Generate(payload)

SpecFrame == InitFrame /\ [][NextFrame]_vars

\* Two sessions calling ReminderService.schedule side by side on a table
\* that starts empty, each a select and then an insert with its commit.
InitConcurrent ==
    /\ now = 0
    /\ botToken = TRUE
    /\ prefs = [u \in Users |-> AbsentPref]
    /\ tasks = SeedTasks
    /\ reminders = NoRow
    /\ nextId = 1
    /\ batchSize = 1
    /\ run = [w \in Workers |-> Idle]
    /\ deliveries = NoRow
    /\ lastCall = NoCall
    /\ report = NoReport
    /\ window = NoWindow
    /\ zone = NoZoneCall
    /\ subscription = NoSubscription
    /\ access = NoAccess
    /\ sched = [s \in Sessions |-> NoSchedule]

NextConcurrent ==
    \/ /\ nextId <= MaxScheduled
       /\ \E s \in Sessions, t \in TaskIds, when \in Instants : ScheduleSelect(s, t, when)
    \/ \E s \in Sessions : ScheduleCommit(s)

SpecConcurrent == InitConcurrent /\ [][NextConcurrent]_vars

\* The users whose chat refuses every message, the bot being blocked there:
\* response.raise_for_status() raises on each attempt.
BlockedUsers == {3}

\* A task of a blocked user and a task of a user who receives messages.
LiveTasks ==
    <<[user_id |-> 3, due_at |-> Null],
      [user_id |-> 1, due_at |-> Step]>>

SendRejected(task_id) == tasks[task_id].user_id \in BlockedUsers

\* A pass of the loop body in which the channel answers the same way on
\* every attempt for the same chat.
DispatchSteady(w) ==
    /\ DispatchOne(w)
    /\ run'[w].out[Len(run'[w].out)] =
          IF SendRejected(run[w].batch[run[w].i].task_id) THEN "raise" ELSE "ok"

\* Dispatch runs repeated for ever, one at a time, every commit succeeding,
\* over a table of pending reminders of the two tasks.  No two rows share an
\* instant, so ORDER BY remind_at fixes the order of every fetch.
InitLive ==
    /\ now = 0
    /\ botToken = TRUE
    /\ prefs = [u \in Users |-> AbsentPref]
    /\ tasks = LiveTasks
    /\ \E n \in 1..RunReminders :
         \E table \in [1..n -> [task_id : DOMAIN LiveTasks, remind_at : Instants,
                                sent : {FALSE}]] :
            /\ \A j, k \in 1..n : j # k => table[j].remind_at # table[k].remind_at
            /\ reminders = table
            /\ nextId = n + 1
    /\ batchSize \in 1..RunReminders
    /\ run = [w \in Workers |-> Idle]
    /\ deliveries = NoRow
    /\ lastCall = NoCall
    /\ report = NoReport
    /\ window = NoWindow
    /\ zone = NoZoneCall
    /\ subscription = NoSubscription
    /\ access = NoAccess
    /\ sched = [s \in Sessions |-> NoSchedule]

NextLive ==
    \/ ClockRuns /\ Tick
    \/ Fetch(1)
    \/ DispatchSteady(1)
    \/ CommitOk(1)

\* The scheduler starts a run again and again, and a run that has started
\* goes on through its loop to its commit.
SpecLive ==
    /\ InitLive
    /\ [][NextLive]_vars
    /\ WF_vars(ClockRuns /\ Tick)
    /\ WF_vars(Fetch(1))
    /\ WF_vars(DispatchSteady(1))
    /\ WF_vars(CommitOk(1))

\* ------------------------------------------------------------------ claims

Sent(id) == id \in ReminderIds /\ reminders[id].sent

Finished(w, how) == run[w].pc = "done" /\ run[w].commit = how

\* C1: in one run, a reminder whose send raised keeps sent = false, the loop
\* goes on over the whole batch, and the reminders the run does deliver are
\* marked sent and committed.
C1_DeliveryFailureIsolated ==
    \A w \in Workers :
        LET r == run[w]
        IN  /\ r.pc \in {"commit", "done"} => Len(r.out) = Len(r.batch)
            /\ Finished(w, "ok") =>
                 \A k \in DOMAIN r.batch :
                    /\ r.out[k] = "raise" => ~Sent(r.batch[k].id)
                    /\ r.out[k] \in {"ok", "skipped"} => Sent(r.batch[k].id)

\* C1: a committed run in which a send raised and a later send succeeded.
C1_Witness ==
    \E w \in Workers : \E j, k \in DOMAIN run[w].batch :
        /\ Finished(w, "ok")
        /\ j < k
        /\ run[w].out[j] = "raise" /\ ~Sent(run[w].batch[j].id)
        /\ run[w].out[k] = "ok" /\ Sent(run[w].batch[k].id)

OutcomeCount(w, kinds) ==
    Cardinality({k \in DOMAIN run[w].out : run[w].out[k] \in kinds})

IdsOf(batch) == {batch[k].id : k \in DOMAIN batch}

\* The next run's fetch left `id` out only for a row with the same remind_at,
\* at the batch_size limit.
CutOnTie(id, batch) ==
    /\ Len(batch) = batchSize
    /\ \E k \in DOMAIN batch :
          reminders[batch[k].id].remind_at = reminders[id].remind_at

C3_NothingPersisted ==
    \A w \in Workers :
        Finished(w, "failed") =>
            /\ run[w].processed = OutcomeCount(w, {"ok", "skipped"})
            /\ \A id \in BatchIds(w) : ~Sent(id) /\ id \in DueIds

C3_FetchedAgain ==
    \A w \in Workers :
        (Finished(w, "failed") /\ run'[w] # run[w]) =>
            \A id \in BatchIds(w) :
                id \in IdsOf(run'[w].batch) \/ CutOnTie(id, run'[w].batch)

C3_AllFetchedAgain ==
    \A w \in Workers :
        (Finished(w, "failed") /\ run'[w] # run[w]) =>
            \A id \in BatchIds(w) : id \in IdsOf(run'[w].batch)

InFlight(w) == run[w].pc \in {"loop", "commit"}

\* The step is a fetch of w: nothing else changes a run that is not in flight.
FetchStep(w) == run[w].pc \in {"idle", "done"} /\ run'[w] # run[w]

Pending(id) == id \in ReminderIds /\ ~reminders[id].sent /\ reminders[id].remind_at <= now

C4_FetchTakesHeldReminder ==
    \A w, other \in Workers : \A id \in BatchIds(other) :
        (w # other /\ InFlight(other) /\ Pending(id) /\ FetchStep(w)) =>
            \/ id \in IdsOf(run'[w].batch)
            \/ /\ Len(run'[w].batch) = batchSize
               /\ \A k \in DOMAIN run'[w].batch :
                     reminders[run'[w].batch[k].id].remind_at <= reminders[id].remind_at

\* C4: nothing claims or locks a reminder between fetch and delivery.  While
\* one run holds a pending reminder in its batch and has not committed, a
\* fetch by another run takes the same reminder (unless batch_size rows that
\* are due no later fill its batch).
C4_OverlappingRunsShareReminder ==
    [][C4_FetchTakesHeldReminder]_vars

\* C4: two runs, neither committed, have each delivered the same reminder.
C4_Witness ==
    \E id \in ReminderIds :
        /\ Delivered(id) = 2
        /\ \A w \in Workers :
              /\ run[w].pc = "commit"
              /\ \E k \in DOMAIN run[w].batch :
                    run[w].batch[k].id = id /\ run[w].out[k] = "ok"

\* A reminder is pending (sent = false), dispatched (sent = true) or deleted.
C5_Lifecycle ==
    /\ \A id \in ReminderIds : reminders[id].sent \in BOOLEAN
    /\ ReminderIds \subseteq 1..(nextId - 1)

C5_SentIsTerminal ==
    /\ \A id \in ReminderIds :
          reminders[id].sent =>
             /\ id \in ReminderIds' => reminders'[id].sent
             /\ \A w \in Workers : FetchStep(w) => id \notin IdsOf(run'[w].batch)
    /\ \A id \in 1..(nextId - 1) : id \notin ReminderIds => id \notin ReminderIds'
    /\ \A id \in DOMAIN deliveries' :
          deliveries'[id] # Delivered(id) =>
             \E w \in Workers : run[w].pc = "loop" /\ run[w].batch[run[w].i].id = id

\* C5: the persisted sent flag goes only from false to true.  A row with
\* sent = true keeps it until it is deleted, whatever runs (schedule,
\* mark_sent, a dispatch run, the rollback of a failed commit); a deleted row
\* does not come back; a fetch never returns a row with sent = true, and a
\* run sends only the rows it fetched.
C5_SentOnlyFalseToTrue == []C5_Lifecycle /\ [][C5_SentIsTerminal]_vars

\* C5: a reminder was delivered and persisted as sent, it is still past its
\* instant, and every worker has since fetched and found nothing due.
C5_Witness ==
    \E id \in ReminderIds :
        /\ Sent(id)
        /\ reminders[id].remind_at <= now
        /\ Delivered(id) >= 1
        /\ \A w \in Workers : run[w] = [Idle EXCEPT !.pc = "done"]

NewReminderIds == ReminderIds' \ ReminderIds

\* C6: no step, on any creation path, inserts a reminder whose remind_at is
\* strictly before the instant of the insert.
C6_NoReminderCreatedInPast ==
    [][\A id \in NewReminderIds : reminders'[id].remind_at >= now]_vars

NewTaskIds == TaskIds' \ TaskIds

\* The offset compute_default_times reads from the preference create_tasks
\* reads as a number: the same stored value.
SameOffset(user) ==
    /\ prefs[user].kind = "num"
    /\ OffsetsOf(prefs[user]) = <<[valid |-> TRUE, minutes |-> ChatOffset(prefs[user])]>>

\* A step of the chat path: it is the only one that adds tasks and reminders.
C7_ChatStep ==
    (NewTaskIds # {} /\ NewReminderIds # {}) =>
        \A t \in NewTaskIds :
            LET user == tasks'[t].user_id
                due_at == tasks'[t].due_at
                offset == ChatOffset(prefs[user])
                mine == {id \in NewReminderIds : reminders'[id].task_id = t}
            IN  /\ Cardinality(mine) = 1
                /\ \A id \in mine :
                      /\ ~reminders'[id].sent
                      /\ reminders'[id].remind_at =
                            IF due_at # Null /\ due_at - offset > now
                            THEN due_at - offset ELSE now + offset
                /\ (SameOffset(user) /\ due_at # Null /\ due_at - offset <= now) =>
                      ComputeDefaultTimes(due_at, user, now) = <<>>
                /\ (SameOffset(user) /\ due_at # Null /\ due_at - offset > now) =>
                      ComputeDefaultTimes(due_at, user, now) = <<due_at - offset>>

\* A step of schedule_default_reminders adds only instants after now, and
\* nothing when no candidate is after now.
C7_DefaultStep ==
    \A t \in TaskIds :
        ScheduleDefaultReminders(t) =>
            /\ \A id \in NewReminderIds : reminders'[id].remind_at > now
            /\ ComputeDefaultTimes(tasks[t].due_at, tasks[t].user_id, now) = <<>>
                  => reminders' = reminders

ConfiguredOffsets(user) ==
    LET offsets == OffsetsOf(IF user = Null THEN AbsentPref ELSE prefs[user])
    IN  {offsets[k].minutes : k \in {j \in DOMAIN offsets : offsets[j].valid}}

\* C8: every instant compute_default_times returned is strictly after the
\* now the call read and is due - offset for a configured offset; the result
\* is in ascending order, and empty when there is no due instant.
C8_DefaultTimesFutureSorted ==
    LET out == lastCall.out
    IN  /\ \A k \in DOMAIN out :
              /\ out[k] > lastCall.now
              /\ \E m \in ConfiguredOffsets(lastCall.user) : out[k] = lastCall.due_at - m
        /\ \A j, k \in DOMAIN out : j < k => out[j] <= out[k]
        /\ lastCall.due_at = Null => out = <<>>

\* C8: a call with two offsets stored in ascending order returned both
\* candidates, the later offset's first.
C8_Witness ==
    /\ lastCall.user = 1
    /\ prefs[1].kind = "list"
    /\ Len(prefs[1].list) = 2
    /\ prefs[1].list[1].valid /\ prefs[1].list[2].valid
    /\ prefs[1].list[1].minutes < prefs[1].list[2].minutes
    /\ lastCall.out = <<lastCall.due_at - prefs[1].list[2].minutes,
                        lastCall.due_at - prefs[1].list[1].minutes>>

\* schedule_default_reminders(t) applied to a table.
DefaultsInto(db, t) ==
    ScheduleAll(db, t, ComputeDefaultTimes(tasks[t].due_at, tasks[t].user_id, now))

\* C9: schedule_default_reminders invoked again for the same task adds no
\* reminder: the table after two invocations is the table after one, and the
\* table holds at most one reminder per (task, instant).
C9_ScheduleDefaultsIdempotent ==
    /\ \A t \in TaskIds :
          LET once == DefaultsInto([table |-> reminders, nid |-> nextId], t)
          IN  DefaultsInto(once, t) = once
    /\ \A j, k \in ReminderIds :
          (/\ reminders[j].task_id = reminders[k].task_id
           /\ reminders[j].remind_at = reminders[k].remind_at) => j = k

\* C9: schedule_default_reminders has inserted two reminders for a task, and
\* would insert them again if schedule did not look for the existing rows.
C9_Witness ==
    \E t \in TaskIds :
        LET times == ComputeDefaultTimes(tasks[t].due_at, tasks[t].user_id, now)
        IN  /\ Len(times) = 2
            /\ \A k \in DOMAIN times : Existing(reminders, t, times[k]) # {}
            /\ Cardinality(ReminderIds) = 2

\* The step created the task or changed its due instant.
DueSet(t) == t \in NewTaskIds \/ tasks'[t].due_at # tasks[t].due_at

\* C10: after a step that creates a task with a due instant, or changes a
\* task's due instant, the task has a reminder at due - offset for every
\* default offset whose candidate is after now.
C10_DefaultsScheduledOnCreate ==
    [][\A t \in TaskIds' :
          (DueSet(t) /\ tasks'[t].due_at # Null) =>
             LET times == ComputeDefaultTimes(tasks'[t].due_at, tasks'[t].user_id, now)
             IN  \A k \in DOMAIN times : Existing(reminders', t, times[k]) # {}]_vars

\* C11: compute_default_times does not raise, whatever the preference holds,
\* and every valid offset whose candidate is after now has its candidate in
\* the result, whatever entries stand around it.
C11_InvalidEntriesSkipped ==
    /\ ~lastCall.raised
    /\ lastCall.due_at # Null =>
          \A m \in ConfiguredOffsets(lastCall.user) :
             lastCall.due_at - m > lastCall.now =>
                \E k \in DOMAIN lastCall.out : lastCall.out[k] = lastCall.due_at - m

\* The anchor date of the recorded call: the requested date, or the date the
\* clock reading falls on in the zone.
AnchorDate ==
    IF window.date # NoDate THEN window.date
    ELSE CHOOSE date \in [y : Years \cup {2022 + MaxYears + 1}, m : 1..12, d : 1..31] :
            /\ IsDate(date)
            /\ DayNumber(date) =
                  (window.now + UtcOffsetAt(window.tz, window.now)) \div MinutesPerDay

\* C19: the window is half-open with start < end.  Daily runs from the
\* anchor's midnight to one day later, weekly to seven days later, monthly
\* from day 1 of the anchor's month to day 1 of the following month, whatever
\* the month's length, December and a leap February included.
C19_WindowBounds ==
    window.outcome = "returned" =>
        LET out == window.out
            first == [AnchorDate EXCEPT !.d = 1]
        IN  /\ out.start_utc < out.end_utc
            /\ out.start_utc = ToUtc(out.start_local, window.tz)
            /\ out.end_utc = ToUtc(out.end_local, window.tz)
            /\ IsDate(out.start_local) /\ IsDate(out.end_local)
            /\ window.tz # "Europe/Stockholm" =>
                  out.end_utc - out.start_utc =
                     (DayNumber(out.end_local) - DayNumber(out.start_local)) * MinutesPerDay
            /\ window.report_type = "daily" =>
                  /\ out.start_local = AnchorDate
                  /\ DayNumber(out.end_local) = DayNumber(AnchorDate) + 1
            /\ window.report_type = "weekly" =>
                  /\ out.start_local = AnchorDate
                  /\ DayNumber(out.end_local) = DayNumber(AnchorDate) + 7
            /\ window.report_type = "monthly" =>
                  /\ out.start_local = first
                  /\ out.end_local =
                        IF first.m = 12 THEN [y |-> first.y + 1, m |-> 1, d |-> 1]
                        ELSE [first EXCEPT !.m = first.m + 1]

\* C19: a monthly window was computed for an anchor inside February 2024 and
\* ends on 2024-03-01.
C19_Witness ==
    /\ window.outcome = "returned"
    /\ window.report_type = "monthly"
    /\ window.date # NoDate
    /\ window.date.y = 2024 /\ window.date.m = 2 /\ window.date.d > 1
    /\ window.out.start_local = [y |-> 2024, m |-> 2, d |-> 1]
    /\ window.out.end_local = [y |-> 2024, m |-> 3, d |-> 1]

\* C20: for every report type the third value _calculate_window returns is
\* midnight of the requested anchor date, or of today when no date is given.
C20_AnchorIsRequestedDate ==
    window.outcome = "returned" => window.out.anchor = AnchorDate

\* The request of the recorded generate call and its response.
Returned == report.outcome = "returned"

\* C12: the scope of a report follows the precedence user_id, project_id,
\* team_id, organization_id over every combination of the four ids, and is
\* USER when none is present.
C12_ScopePrecedence ==
    Returned =>
        LET p == report.payload
            scope == report.response.scope
        IN  /\ p.user_id # Null => scope = "user"
            /\ p.user_id = Null /\ p.project_id # Null => scope = "project"
            /\ p.user_id = Null /\ p.project_id = Null /\ p.team_id # Null
                  => scope = "team"
            /\ (/\ p.user_id = Null /\ p.project_id = Null /\ p.team_id = Null
                /\ p.organization_id # Null) => scope = "organization"
            /\ (/\ p.user_id = Null /\ p.project_id = Null /\ p.team_id = Null
                /\ p.organization_id = Null) => scope = "user"

\* A request with user_id and organization_id both set came back with scope USER.
C12_Witness ==
    /\ Returned
    /\ report.payload.user_id # Null
    /\ report.payload.organization_id # Null
    /\ report.response.scope = "user"

\* The request carries none of the four ids.
NoIdentity(payload) ==
    /\ payload.user_id = Null
    /\ payload.project_id = Null
    /\ payload.team_id = Null
    /\ payload.organization_id = Null

\* C13: generate never returns a report for a request that carries none of
\* user_id, project_id, team_id and organization_id.
C13_MissingIdentityRaises ==
    report.outcome # "none" /\ NoIdentity(report.payload) => ~Returned

\* C14: a format mismatch never makes generate fail; a returned response has
\* a summary, and its file_url is set exactly when the scope is USER and the
\* format PDF, or the scope is not USER and the format CSV; otherwise no file
\* is written.
C14_FormatGating ==
    report.outcome # "none" =>
        LET p == report.payload
            user_scope == p.user_id # Null \/ NoIdentity(p)
            supported == \/ user_scope /\ p.format = "pdf"
                         \/ ~user_scope /\ p.format = "csv"
        IN  /\ ~supported => Returned
            /\ Returned =>
                  /\ report.response.summary.header # ""
                  /\ report.response.file_url # NoFile <=> supported
                  /\ ~supported => report.wrote = {}

\* PDF was requested for a scope that is not USER, and the text summary came back.
C14_Witness ==
    /\ Returned
    /\ report.payload.format = "pdf"
    /\ report.response.scope = "organization"
    /\ report.response.file_url = NoFile
    /\ report.wrote = {}

\* C15: the format of the response is the format used: text when no file
\* was rendered.
C15_FormatIsFormatUsed ==
    Returned =>
        report.response.format =
            IF report.response.file_url = NoFile THEN "text" ELSE report.payload.format

\* The fetched tasks of the recorded call that _is_completed does not hold for.
NotCompleted == {t \in report.fetched : ~IsCompleted(tasks[t])}

\* C16: completed + overdue <= total, no task is counted as both completed
\* and overdue, and completed + overdue = total exactly when every fetched
\* task that is not completed is due strictly before the evaluation instant.
C16_CountsPartition ==
    Returned =>
        LET counts == report.response.counts
        IN  /\ counts.total = Cardinality(report.fetched)
            /\ counts.completed = Cardinality(report.fetched \ NotCompleted)
            /\ counts.overdue <= Cardinality(NotCompleted)
            /\ counts.completed + counts.overdue <= counts.total
            /\ counts.completed + counts.overdue = counts.total
                  <=> \A t \in NotCompleted :
                         tasks[t].due_at # Null /\ tasks[t].due_at < report.now

\* A completed task and a past-due open task were counted: the sum is the total.
C16_Witness ==
    /\ Returned
    /\ report.response.counts.completed >= 1
    /\ report.response.counts.overdue >= 1
    /\ report.response.counts.completed + report.response.counts.overdue
          = report.response.counts.total

\* The sum of the overdue values of a set of trend points.
RECURSIVE TrendSum(_)
TrendSum(points) ==
    IF points = {} THEN 0
    ELSE LET point == CHOOSE x \in points : TRUE
         IN  point.overdue + TrendSum(points \ {point})

\* C17: in a report of a scope other than USER, the overdue values of the
\* trend buckets sum to the overdue value of the counts.
C17_TrendSumsToOverdue ==
    Returned /\ report.response.scope # "user" =>
        TrendSum(report.response.metrics.overdue_trend) = report.response.counts.overdue

\* The three places that classify a task as completed agree on it.
SameEverywhere(task) ==
    /\ IsCompleted(task) <=> AnalyticsCompleted(task)
    /\ IsCompleted(task) <=> ChatCompleted(task)

\* C18: after a task is completed, by TaskService.mark_done or by the chat
\* path, the report counts, the analytics summary and the chat report
\* classify it alike.
C18_SameCompletionEverywhere ==
    [][\A t \in TaskIds : tasks'[t] # tasks[t] => SameEverywhere(tasks[t])']_vars

\* C21: _resolve_timezone never raises; it returns the requested zone when
\* ZoneInfo knows it, else the configured default when ZoneInfo knows that,
\* else UTC.
C21_ResolveNeverRaises ==
    zone.outcome = "called" =>
        LET known(key) == key \in Zones
            requested == IF zone.name = NoZone THEN zone.default ELSE zone.name
        IN  /\ ~zone.out.raised
            /\ known(requested) => zone.out.zone = requested
            /\ ~known(requested) /\ known(zone.default) => zone.out.zone = zone.default
            /\ ~known(requested) /\ ~known(zone.default) => zone.out.zone = "UTC"

\* A malformed name under an unknown default resolved to UTC.
C21_Witness ==
    /\ zone.outcome = "called"
    /\ zone.name \in MalformedKeys
    /\ zone.default \in UnknownKeys
    /\ zone.out = [raised |-> FALSE, zone |-> "UTC"]

\* The period of the row's status is over at the clock reading.
PeriodOver ==
    \/ /\ subscription.status = "trial"
       /\ subscription.trial_end # Null
       /\ subscription.trial_end < now
    \/ /\ subscription.status = "active"
       /\ subscription.active_until # Null
       /\ subscription.active_until < now

\* A check_access call on a row whose period is over expires it and returns
\* false; on any other row it changes nothing and returns true exactly for
\* TRIAL and ACTIVE.
C22_CheckStep ==
    CheckAccess =>
        /\ PeriodOver => subscription'.status = "expired" /\ ~access'.result
        /\ ~PeriodOver =>
              /\ subscription' = subscription
              /\ access'.result <=> subscription.status \in {"trial", "active"}

\* activate leaves the row ACTIVE with a period that ends after the call.
C22_ActivateStep ==
    (\E duration_days \in 1..MaxDuration : Activate(duration_days)) =>
        /\ subscription'.status = "active"
        /\ subscription'.active_until > now

\* An EXPIRED row stays EXPIRED except by activate, start_trial or cancel.
C22_LeavesExpired ==
    subscription.status = "expired" /\ subscription'.status # "expired" =>
        \/ \E duration_days \in 1..MaxDuration : Activate(duration_days)
        \/ \E days \in 1..MaxDuration : StartTrial(days)
        \/ CancelSubscription

\* C22: check_access grants access only to a TRIAL or ACTIVE subscription
\* whose period end has not passed; once it has passed, check_access sets
\* EXPIRED and returns false, and keeps doing so until activate (after which
\* the row is ACTIVE and access is granted again) or start_trial is called.
C22_AccessFollowsPeriod ==
    /\ [][C22_CheckStep]_vars
    /\ [][C22_ActivateStep]_vars
    /\ [][C22_LeavesExpired]_vars

\* check_access has expired the row and returned false.
C22_Witness ==
    /\ access.outcome = "returned"
    /\ ~access.result
    /\ subscription.status = "expired"
    /\ subscription.active_until < now

\* C22 as stated: an EXPIRED subscription is granted access again only by
\* activate, which leaves it ACTIVE.
C22_ExpiredUntilActivate ==
    [][subscription.status = "expired" /\ subscription'.status \in {"trial", "active"}
          => subscription'.status = "active"]_vars

\* C28: an exception while composing the message of one reminder does not
\* end the run: the loop goes on to the commit of the marks set so far.
C28_ComposeFailureIsolated ==
    \A w \in Workers :
        (\E k \in DOMAIN run[w].out : run[w].out[k] = "compose_error") =>
            /\ run[w].pc \in {"loop", "commit", "done"}
            /\ run[w].pc = "done" => run[w].commit = "ok"

\* A fetch takes only rows that are unsent and due at that moment, at most
\* batch_size of them, in ascending remind_at order.
C23_FetchStep ==
    \A w \in Workers :
        FetchStep(w) =>
            LET batch == run'[w].batch
            IN  /\ Len(batch) <= batchSize
                /\ \A k \in DOMAIN batch :
                      /\ batch[k].id \in ReminderIds
                      /\ ~reminders[batch[k].id].sent
                      /\ reminders[batch[k].id].remind_at <= now
                /\ \A j, k \in DOMAIN batch :
                      j < k => reminders[batch[j].id].remind_at
                                  <= reminders[batch[k].id].remind_at

\* The loop sends only for the reminder it stands at, and only if that row
\* was not yet persisted as sent when the run fetched.
C23_SendStep ==
    \A id \in ReminderIds :
        Delivered(id)' > Delivered(id) =>
            /\ reminders[id].remind_at <= now
            /\ ~reminders[id].sent
            /\ \E w \in Workers :
                  run[w].pc = "loop" /\ run[w].batch[run[w].i].id = id

\* C23: a dispatch run handles only reminders that were unsent and due when
\* it fetched, at most batch_size of them in ascending remind_at order; no
\* reminder is delivered before its remind_at or after it was persisted as sent.
C23_OnlyDueUnsentBatch ==
    /\ [][C23_FetchStep]_vars
    /\ [][C23_SendStep]_vars

\* A full batch was fetched that leaves a due reminder out, and its first
\* reminder was delivered.
C23_Witness ==
    /\ run[1].pc \in {"loop", "commit"}
    /\ Len(run[1].batch) = batchSize
    /\ DueIds \ BatchIds(1) # {}
    /\ Delivered(run[1].batch[1].id) = 1

\* The window of the recorded generate call.
ReportWindow ==
    CalculateWindow(report.payload.report_type, report.payload.date, report.tz, report.now)

\* The tasks the request of the recorded call asks for.
Requested ==
    LET p == report.payload
    IN  {t \in TaskIds :
            /\ ReportWindow.start_utc <= tasks[t].created_at
            /\ tasks[t].created_at < ReportWindow.end_utc
            /\ p.user_id = Null \/ tasks[t].user_id = p.user_id
            /\ p.organization_id = Null \/ tasks[t].organization_id = p.organization_id
            /\ p.project_id = Null \/ tasks[t].project_id = p.project_id
            /\ \/ p.team_id = Null
               \/ tasks[t].assigned_team_id = p.team_id
               \/ /\ tasks[t].project_id # Null
                  /\ ProjectTeam(tasks[t].project_id) = p.team_id}

\* C24: the fetch returns exactly the tasks created inside the window that
\* match every id present on the request (the team through an assignment
\* or through the task's project), each once, in ascending created_at
\* order; when none matches the list is empty and nothing is raised.
C24_FetchSelectsRequested ==
    /\ Returned =>
          /\ Range(report.order) = Requested
          /\ Len(report.order) = Cardinality(Requested)
          /\ \A j, k \in DOMAIN report.order :
                j < k => tasks[report.order[j]].created_at
                            <= tasks[report.order[k]].created_at
          /\ report.response.counts.total = Cardinality(Requested)
    /\ report.outcome = "raised" => report.payload.format # "text"

\* A team request fetched a task through its project and left out a task
\* of the window that has nothing to do with the team.
C24_Witness ==
    /\ Returned
    /\ report.payload.team_id # Null
    /\ report.payload.user_id = Null
    /\ \E t \in Range(report.order) : tasks[t].assigned_team_id = Null
    /\ \E t \in TaskIds \ Range(report.order) :
          /\ ReportWindow.start_utc <= tasks[t].created_at
          /\ tasks[t].created_at < ReportWindow.end_utc

\* A step of a dispatch run changes no task, no user, and of the reminders
\* only sent, from false to true; it adds and removes no reminder.
C25_DispatchStep ==
    run' # run =>
        /\ tasks' = tasks
        /\ prefs' = prefs
        /\ DOMAIN reminders' = DOMAIN reminders
        /\ \A id \in ReminderIds :
              /\ reminders'[id].task_id = reminders[id].task_id
              /\ reminders'[id].remind_at = reminders[id].remind_at
              /\ reminders[id].sent => reminders'[id].sent

\* generate changes no task, no user and no reminder.
C25_GenerateStep ==
    report' # report => tasks' = tasks /\ prefs' = prefs /\ reminders' = reminders

\* C25: a dispatch run changes nothing but the sent flag of reminders, and
\* ReportService.generate changes neither tasks nor reminders.
C25_FrameOfDispatchAndReport ==
    /\ [][C25_DispatchStep]_vars
    /\ [][C25_GenerateStep]_vars

\* A run has committed a sent mark and a report was generated.
C25_Witness ==
    /\ Finished(1, "ok")
    /\ \E id \in ReminderIds : Sent(id)
    /\ Returned
    /\ report.response.counts.total > 0

\* C27: with one dispatch run in flight at a time, no reminder is delivered
\* to the channel more than once, whatever the commits of the runs do.
C27_DeliveredAtMostOnce ==
    \A id \in ReminderIds : Delivered(id) <= 1

\* C30: the table never holds two reminders of the same task for the same
\* instant, also when two schedule calls run side by side.
C30_OneReminderPerTaskAndInstant ==
    \A a, b \in ReminderIds :
        /\ reminders[a].task_id = reminders[b].task_id
        /\ reminders[a].remind_at = reminders[b].remind_at
        => a = b

\* C29: in a user-scope report the overdue preview holds min(3,
\* counts.overdue) tasks, each of them counted as overdue by the counts of
\* the same call.
C29_PreviewMatchesOverdueCount ==
    Returned /\ report.response.scope = "user" =>
        LET preview == report.response.overdue_tasks
        IN  /\ Len(preview) = Min(PreviewLimit, report.response.counts.overdue)
            /\ \A k \in DOMAIN preview : IsOverdue(tasks[preview[k]], report.now)

\* C26: under repeated runs whose commits succeed, a due reminder that the
\* channel accepts is eventually marked sent, whatever other reminders the
\* channel refuses on every run.
C26_DeliverableEventuallySent ==
    \A id \in 1..RunReminders :
        (/\ id \in ReminderIds
         /\ reminders[id].remind_at <= now
         /\ ~Undeliverable(reminders[id].task_id)
         /\ ~SendRejected(reminders[id].task_id))
        ~> (id \in ReminderIds /\ reminders[id].sent)

====
